---- MODULE Spec2Model ----
(***************************************************************************)
(* Model of Source/Scene/createTileMapServiceImageryProvider.js.           *)
(*                                                                         *)
(* One invocation of createTileMapServiceImageryProvider(options): the     *)
(* synchronous part (argument check, deferred, provider, first request)    *)
(* and the two callbacks metadataSuccess / metadataFailure that run when a *)
(* request for tilemapresource.xml settles.                                *)
(*                                                                         *)
(* Conventions.                                                            *)
(*  - A JavaScript value that may be undefined is a set with at most one   *)
(*    element: {} is undefined, {v} is the value v.                        *)
(*  - Attribute texts that the code parses (parseInt, parseFloat) are      *)
(*    sequences of one-character strings, parsed digit by digit.           *)
(*  - Angles (the code's radians) are integers in units of 5 degrees, so   *)
(*    Pi is 36 units; projected web-mercator coordinates are integers in   *)
(*    kilometres.                                                          *)
(***************************************************************************)
EXTENDS Integers, Sequences, FiniteSets, TLC

VARIABLES
    options,          \* the options object of the invocation
    pc,               \* "call" before the invocation, then "returned" or "threw"
    deferredState,    \* "none" (not created), "pending", "resolved", "rejected"
    deferredValue,    \* the configuration the deferred was resolved with, or {}
    resolveCalls,     \* number of deferred.resolve calls made
    rejectCalls,      \* number of deferred.reject calls made
    imageryProvider,  \* TRUE once new UrlTemplateImageryProvider(...) has run
    metadataError,    \* the closure variable metadataError: {} or {TileProviderError}
    requests,         \* resource urls handed to RequestScheduler.request, in order
    pending,          \* TRUE while a request has not settled
    xml,              \* what the last settled request delivered: {} before any
    handler,          \* the callback that ran last: "none", "metadataSuccess", "metadataFailure"
    uncaught,         \* number of exceptions thrown out of metadataSuccess
    errorEvents,      \* number of errors handed to TileProviderError.handleError
    retriesGranted,   \* number of times the listeners of the error event set retry
    unclampedRectangle, \* metadataSuccess's local rectangle at line 203 of its last run, or {}
    clampedRectangle  \* the same local after line 216 of its last run, or {}

vars == << options, pc, deferredState, deferredValue, resolveCalls, rejectCalls,
           imageryProvider, metadataError, requests, pending, xml, handler,
           uncaught, errorEvents, retriesGranted, unclampedRectangle, clampedRectangle >>

----------------------------------------------------------------------------
(* Bounds of the model.                                                    *)

\* The error channel grants at most this many retries in one behaviour.
MaxRetries == 2

----------------------------------------------------------------------------
(* JavaScript helpers.                                                     *)

Undefined == {}

defined(x) == x # {}

Val(x) == CHOOSE v \in x : TRUE

\* Core/defaultValue: a when it is defined, else b.  JavaScript evaluates both
\* arguments before the call: the callers below account for an argument that throws.
defaultValue(a, b) == IF defined(a) THEN a ELSE b

DigitValue(c) ==
    CASE c = "0" -> 0 [] c = "1" -> 1 [] c = "2" -> 2 [] c = "3" -> 3 [] c = "4" -> 4
      [] c = "5" -> 5 [] c = "6" -> 6 [] c = "7" -> 7 [] c = "8" -> 8 [] c = "9" -> 9

IsDigit(c) == c \in {"0", "1", "2", "3", "4", "5", "6", "7", "8", "9"}

\* The value of the longest prefix of digits of s[i..], continuing from acc.
RECURSIVE ParseDigits(_, _, _)
ParseDigits(s, i, acc) ==
    IF i > Len(s) \/ ~IsDigit(s[i]) THEN acc
    ELSE ParseDigits(s, i + 1, 10 * acc + DigitValue(s[i]))

\* parseInt(s, 10) for a text that starts with an optional sign and a digit
\* (every numeric attribute of the documents enumerated below does).
parseInt(s) ==
    IF s[1] = "-" THEN 0 - ParseDigits(s, 2, 0)
    ELSE IF s[1] = "+" THEN ParseDigits(s, 2, 0)
    ELSE ParseDigits(s, 1, 0)

\* parseFloat(s) on the same texts; the bounding boxes enumerated below carry
\* whole numbers, on which parseFloat and parseInt agree.
parseFloat(s) == parseInt(s)

RECURSIVE Pow2(_)
Pow2(n) == IF n <= 0 THEN 1 ELSE 2 * Pow2(n - 1)

Abs(n) == IF n < 0 THEN 0 - n ELSE n

----------------------------------------------------------------------------
(* Core geometry: Rectangle, Cartographic, the two tiling schemes and the  *)
(* web-mercator projection.  These live in Source/Core, outside the file   *)
(* modelled here; they are modelled on the integer grid described above.   *)

Pi == 36

\* Half the width of the projected web-mercator square, in kilometres
\* (semimajor axis times pi), chosen as a multiple of Pi.
HalfCircumference == 20016

Rectangle(w, s, e, n) == [west |-> w, south |-> s, east |-> e, north |-> n]

Cartographic(lon, lat) == [longitude |-> lon, latitude |-> lat]

Cartesian2(x, y) == [x |-> x, y |-> y]

\* Rectangle.MAX_VALUE
RectangleMaxValue == Rectangle(0 - Pi, 0 - (Pi \div 2), Pi, Pi \div 2)

\* Rectangle.southwest / Rectangle.northeast
southwest(r) == Cartographic(r.west, r.south)

northeast(r) == Cartographic(r.east, r.north)

\* Cartographic.fromDegrees: degrees to the angle unit (5 degrees each).
fromDegrees(lonDeg, latDeg) == Cartographic(lonDeg \div 5, latDeg \div 5)

\* WebMercatorProjection: northing in kilometres of the latitudes 0, 5, ..., 85
\* degrees; the last entry is the edge of the projected square.
MercatorNorthing ==
    << 0, 557, 1119, 1689, 2273, 2876, 3504, 4164, 4866, 5622, 6446, 7362,
       8400, 9608, 11069, 12932, 15539, 20016 >>

\* WebMercatorProjection.mercatorAngleToGeodeticLatitude, for y >= 0: the
\* greatest grid latitude whose northing is at most y; beyond the square, the pole.
LatitudeOfNorthing(y) ==
    IF y > MercatorNorthing[Len(MercatorNorthing)] THEN Pi \div 2
    ELSE CHOOSE u \in 0..(Len(MercatorNorthing) - 1) :
            /\ MercatorNorthing[u + 1] <= y
            /\ \A v \in 0..(Len(MercatorNorthing) - 1) :
                  MercatorNorthing[v + 1] <= y => v <= u

\* WebMercatorProjection.geodeticLatitudeToMercatorAngle
NorthingOfLatitude(lat) ==
    LET a == IF Abs(lat) >= Len(MercatorNorthing) THEN Len(MercatorNorthing) - 1
             ELSE Abs(lat)
    IN IF lat < 0 THEN 0 - MercatorNorthing[a + 1] ELSE MercatorNorthing[a + 1]

\* WebMercatorProjection.unproject
unproject(xy) ==
    Cartographic((xy.x * Pi) \div HalfCircumference,
                 IF xy.y < 0 THEN 0 - LatitudeOfNorthing(0 - xy.y)
                 ELSE LatitudeOfNorthing(xy.y))

\* The latitude at which the web-mercator square ends (85.05 degrees).
MaximumLatitude == 17

\* new GeographicTilingScheme(): the whole globe, 2 x 1 tiles at level zero.
GeographicTilingScheme ==
    [kind |-> "geographic", rectangle |-> RectangleMaxValue,
     numberOfLevelZeroTilesX |-> 2, numberOfLevelZeroTilesY |-> 1, created |-> "new"]

\* new WebMercatorTilingScheme(): the projected square, 1 x 1 tile at level zero.
WebMercatorTilingScheme ==
    [kind |-> "webmercator",
     rectangle |-> Rectangle(0 - Pi, 0 - MaximumLatitude, Pi, MaximumLatitude),
     numberOfLevelZeroTilesX |-> 1, numberOfLevelZeroTilesY |-> 1, created |-> "new"]

\* contains accepting every position.
contains_everywhere(r, p) == TRUE

\* Rectangle.contains
contains(r, p) ==
    LET wraps == r.east < r.west
        east  == IF wraps THEN r.east + 2 * Pi ELSE r.east
        lon   == IF wraps /\ p.longitude < 0 THEN p.longitude + 2 * Pi ELSE p.longitude
    IN /\ lon >= r.west
       /\ lon <= east
       /\ p.latitude >= r.south
       /\ p.latitude <= r.north

Floor(a, b) == a \div b

\* TilingScheme.positionToTileXY: {} (undefined) for a position outside the
\* scheme's rectangle, else the tile holding it.
positionToTileXY(ts, p, level) ==
    IF ~contains(ts.rectangle, p) THEN Undefined
    ELSE
      LET r      == ts.rectangle
          xTiles == ts.numberOfLevelZeroTilesX * Pow2(level)
          yTiles == ts.numberOfLevelZeroTilesY * Pow2(level)
          lon    == IF r.east < r.west THEN p.longitude + 2 * Pi ELSE p.longitude
          x0     == IF ts.kind = "geographic"
                    THEN Floor((lon - r.west) * xTiles, r.east - r.west)
                    ELSE Floor((p.longitude - r.west) * xTiles, r.east - r.west)
          y0     == IF ts.kind = "geographic"
                    THEN Floor((r.north - p.latitude) * yTiles, r.north - r.south)
                    ELSE Floor((NorthingOfLatitude(r.north) - NorthingOfLatitude(p.latitude)) * yTiles,
                               NorthingOfLatitude(r.north) - NorthingOfLatitude(r.south))
      IN { Cartesian2(IF x0 >= xTiles THEN xTiles - 1 ELSE x0,
                      IF y0 >= yTiles THEN yTiles - 1 ELSE y0) }

\* joinUrls(url, relative)
joinUrls(url, relative) == << url, relative >>

----------------------------------------------------------------------------
(* The capabilities document, as the DOM the code walks.                   *)

Node(name, attrs, children) ==
    [nodeName |-> name, attributes |-> attrs, childNodes |-> children]

\* Element.getAttribute: {} (null) when the attribute is absent.
getAttribute(node, name) ==
    IF name \in DOMAIN node.attributes THEN { node.attributes[name] } ELSE Undefined

\* The regular expressions of lines 112-116, each as the set of node names
\* (among those the documents below use) that it matches.  They are unanchored
\* and case-insensitive, so /tileset/i also matches TileSets.
tileFormatRegex == { "TileFormat" }

tileSetRegex == { "TileSet", "TileSets" }

tileSetsRegex == { "TileSets" }

bboxRegex == { "BoundingBox" }

srsRegex == { "SRS" }

test(regex, name) == name \in regex

NoAttributes == [a \in {} |-> << >>]

\* The loop of lines 123-142 from index i on: the last format, tileset-list
\* container and bounding-box nodes, and every tileset entry in document order.
RECURSIVE ScanNodes(_, _, _)
ScanNodes(nodeList, i, acc) ==
    IF i > Len(nodeList) THEN acc
    ELSE
      LET item == nodeList[i]
          next ==
            IF test(tileFormatRegex, item.nodeName) THEN [acc EXCEPT !.format = { item }]
            ELSE IF test(tileSetsRegex, item.nodeName) THEN
                [acc EXCEPT !.tilesets = { item },
                            !.tilesetsList = @ \o SelectSeq(item.childNodes,
                                LAMBDA c : test(tileSetRegex, c.nodeName))]
            ELSE IF test(bboxRegex, item.nodeName) THEN [acc EXCEPT !.bbox = { item }]
            ELSE IF test(srsRegex, item.nodeName) THEN [acc EXCEPT !.srs = { "srs" }]
            ELSE acc
      IN ScanNodes(nodeList, i + 1, next)

\* Lines 117-142: the variables format, bbox, tilesets, srs and tilesetsList
\* after the loop over xml.childNodes[0].childNodes.
Scan(doc) ==
    ScanNodes(doc.childNodes[1].childNodes, 1,
              [format |-> Undefined, bbox |-> Undefined, tilesets |-> Undefined,
               srs |-> Undefined, tilesetsList |-> << >>])

----------------------------------------------------------------------------
(* metadataSuccess, lines 111-242, as functions of the options o and the   *)
(* parsed document.                                                        *)

\* Lines 144-149 dereference format, tilesetsList[0], the last tileset entry and
\* tilesets without a check: a TypeError when one of them is undefined.  The
\* second argument of defaultValue is evaluated whether or not the override exists.
ThrowsReadingFormat(scan) ==
    \/ ~defined(scan.format)
    \/ Len(scan.tilesetsList) = 0
    \/ ~defined(scan.tilesets)

\* fileExtensionOf with the override ignored.
fileExtensionOf_fromDocument(o, scan) ==
    getAttribute(Val(scan.format), "extension")

\* Line 144
fileExtensionOf(o, scan) ==
    defaultValue(o.fileExtension, getAttribute(Val(scan.format), "extension"))

\* Line 145
tileWidthOf(o, scan) ==
    defaultValue(o.tileWidth, { parseInt(Val(getAttribute(Val(scan.format), "width"))) })

\* Line 146
tileHeightOf(o, scan) ==
    defaultValue(o.tileHeight, { parseInt(Val(getAttribute(Val(scan.format), "height"))) })

\* Line 147
minimumLevelOf(o, scan) ==
    defaultValue(o.minimumLevel,
                 { parseInt(Val(getAttribute(scan.tilesetsList[1], "order"))) })

\* maximumLevelOf reading the first tileset entry instead of the last.
maximumLevelOf_firstEntry(o, scan) ==
    defaultValue(o.maximumLevel,
                 { parseInt(Val(getAttribute(scan.tilesetsList[1], "order"))) })

\* Line 148
maximumLevelOf(o, scan) ==
    defaultValue(o.maximumLevel,
                 { parseInt(Val(getAttribute(scan.tilesetsList[Len(scan.tilesetsList)], "order"))) })

\* Line 149
tilingSchemeNameOf(scan) == getAttribute(Val(scan.tilesets), "profile")

\* tilingSchemeOf falling back to web-mercator for every other profile.
tilingSchemeOf_lenient(o, tilingSchemeName) ==
    IF defined(o.tilingScheme) THEN o.tilingScheme
    ELSE IF tilingSchemeName = { "geodetic" } \/ tilingSchemeName = { "global-geodetic" }
         THEN { GeographicTilingScheme }
    ELSE { WebMercatorTilingScheme }

\* tilingSchemeOf testing the profile name before the override.
tilingSchemeOf_profileFirst(o, tilingSchemeName) ==
    IF tilingSchemeName = { "geodetic" } \/ tilingSchemeName = { "global-geodetic" }
    THEN defaultValue(o.tilingScheme, { GeographicTilingScheme })
    ELSE IF tilingSchemeName = { "mercator" } \/ tilingSchemeName = { "global-mercator" }
    THEN defaultValue(o.tilingScheme, { WebMercatorTilingScheme })
    ELSE Undefined

\* Lines 150-157: the override, else the scheme the profile names, else {}
\* (the unsupported-profile branch).
tilingSchemeOf(o, tilingSchemeName) ==
    IF defined(o.tilingScheme) THEN o.tilingScheme
    ELSE IF tilingSchemeName = { "geodetic" } \/ tilingSchemeName = { "global-geodetic" }
         THEN { GeographicTilingScheme }
    ELSE IF tilingSchemeName = { "mercator" } \/ tilingSchemeName = { "global-mercator" }
         THEN { WebMercatorTilingScheme }
    ELSE Undefined

\* cornersOf flipping the south-west corner only.
cornersOf_southwestOnly(o, bbox) ==
    LET flipXY == Val(defaultValue(o.flipXY, { FALSE }))
        minx == parseFloat(Val(getAttribute(bbox, "minx")))
        miny == parseFloat(Val(getAttribute(bbox, "miny")))
        maxx == parseFloat(Val(getAttribute(bbox, "maxx")))
        maxy == parseFloat(Val(getAttribute(bbox, "maxy")))
    IN IF flipXY
       THEN [swXY |-> Cartesian2(miny, minx), neXY |-> Cartesian2(maxx, maxy)]
       ELSE [swXY |-> Cartesian2(minx, miny), neXY |-> Cartesian2(maxx, maxy)]

\* Lines 178-185: the corner pairs read from the bounding box.
cornersOf(o, bbox) ==
    LET flipXY == Val(defaultValue(o.flipXY, { FALSE }))
        minx == parseFloat(Val(getAttribute(bbox, "minx")))
        miny == parseFloat(Val(getAttribute(bbox, "miny")))
        maxx == parseFloat(Val(getAttribute(bbox, "maxx")))
        maxy == parseFloat(Val(getAttribute(bbox, "maxy")))
    IN IF flipXY
       THEN [swXY |-> Cartesian2(miny, minx), neXY |-> Cartesian2(maxy, maxx)]
       ELSE [swXY |-> Cartesian2(minx, miny), neXY |-> Cartesian2(maxx, maxy)]

\* inDegrees deciding by the profile name alone.
inDegrees_profileOnly(tilingScheme, tilingSchemeName) ==
    tilingSchemeName = { "geodetic" } \/ tilingSchemeName = { "mercator" }

\* Lines 191-192: whether the corners are plain degrees.
inDegrees(tilingScheme, tilingSchemeName) ==
    LET isGdal2tiles == tilingSchemeName = { "geodetic" } \/ tilingSchemeName = { "mercator" }
    IN tilingScheme.kind = "geographic" \/ isGdal2tiles

\* Lines 170-202: the rectangle derived from the bounding box.
derivedRectangle(o, bbox, tilingScheme, tilingSchemeName) ==
    LET c  == cornersOf(o, bbox)
        sw == IF inDegrees(tilingScheme, tilingSchemeName)
              THEN fromDegrees(c.swXY.x, c.swXY.y) ELSE unproject(c.swXY)
        ne == IF inDegrees(tilingScheme, tilingSchemeName)
              THEN fromDegrees(c.neXY.x, c.neXY.y) ELSE unproject(c.neXY)
    IN Rectangle(sw.longitude, sw.latitude, ne.longitude, ne.latitude)

\* Line 168 (Rectangle.clone returns a new object with the same edges) and
\* lines 170-202.
rectangleOf(o, scan, tilingScheme, tilingSchemeName) ==
    IF defined(o.rectangle) THEN Val(o.rectangle)
    ELSE derivedRectangle(o, Val(scan.bbox), tilingScheme, tilingSchemeName)

\* clampRectangle pulling every edge into the scheme's range from both sides.
clampRectangle_bothSides(rectangle, tilingScheme) ==
    LET b == tilingScheme.rectangle
        Within(v, lo, hi) == IF v < lo THEN lo ELSE IF v > hi THEN hi ELSE v
    IN Rectangle(Within(rectangle.west, b.west, b.east),
                 Within(rectangle.south, b.south, b.north),
                 Within(rectangle.east, b.west, b.east),
                 Within(rectangle.north, b.south, b.north))

\* Lines 204-216
clampRectangle(rectangle, tilingScheme) ==
    LET b == tilingScheme.rectangle
    IN Rectangle(IF rectangle.west < b.west THEN b.west ELSE rectangle.west,
                 IF rectangle.south < b.south THEN b.south ELSE rectangle.south,
                 IF rectangle.east > b.east THEN b.east ELSE rectangle.east,
                 IF rectangle.north > b.north THEN b.north ELSE rectangle.north)

\* Lines 221-223, for corners whose tiles exist.
tileCountOf(tilingScheme, rectangle, minimumLevel) ==
    LET swTile == Val(positionToTileXY(tilingScheme, southwest(rectangle), minimumLevel))
        neTile == Val(positionToTileXY(tilingScheme, northeast(rectangle), minimumLevel))
    IN (Abs(neTile.x - swTile.x) + 1) * (Abs(neTile.y - swTile.y) + 1)

\* checkedMinimumLevel with the threshold off by one.
checkedMinimumLevel_fromFour(minimumLevel, tileCount) ==
    IF tileCount >= 4 THEN 0 ELSE minimumLevel

\* Lines 224-226
checkedMinimumLevel(minimumLevel, tileCount) ==
    IF tileCount > 4 THEN 0 ELSE minimumLevel

\* Line 228 and line 254
templateUrl(url, fileExtension) ==
    joinUrls(url, << "{z}/{x}/{reverseY}.", fileExtension >>)

\* Lines 170-223 dereference bbox, swTile and neTile without a check: a
\* TypeError when there is no bounding box to derive the rectangle from, or when
\* positionToTileXY returns undefined for a corner of the clamped rectangle.
ThrowsDerivingRectangle(o, scan, tilingScheme, tilingSchemeName) ==
    \/ ~defined(o.rectangle) /\ ~defined(scan.bbox)
    \/ LET r == clampRectangle(rectangleOf(o, scan, tilingScheme, tilingSchemeName),
                               tilingScheme)
           m == Val(minimumLevelOf(o, scan))
       IN \/ ~defined(positionToTileXY(tilingScheme, southwest(r), m))
          \/ ~defined(positionToTileXY(tilingScheme, northeast(r), m))

\* Lines 230-241: the configuration handed to deferred.resolve.
successConfiguration(o, scan) ==
    LET name   == tilingSchemeNameOf(scan)
        scheme == Val(tilingSchemeOf(o, name))
        rect   == clampRectangle(rectangleOf(o, scan, scheme, name), scheme)
        minL   == Val(minimumLevelOf(o, scan))
    IN [url          |-> templateUrl(o.url, fileExtensionOf(o, scan)),
        tilingScheme |-> scheme,
        rectangle    |-> rect,
        tileWidth    |-> Val(tileWidthOf(o, scan)),
        tileHeight   |-> Val(tileHeightOf(o, scan)),
        minimumLevel |-> checkedMinimumLevel(minL, tileCountOf(scheme, rect, minL)),
        maximumLevel |-> maximumLevelOf(o, scan),
        proxy        |-> o.proxy]

\* Whether a run of metadataSuccess gets as far as line 203: lines 144-149 did
\* not throw, a tiling scheme was found, and there is a rectangle override or a
\* bounding box to read.
reachesClamping(o, doc) ==
    LET scan == Scan(doc)
    IN /\ ~ThrowsReadingFormat(scan)
       /\ defined(tilingSchemeOf(o, tilingSchemeNameOf(scan)))
       /\ defined(o.rectangle) \/ defined(scan.bbox)

\* The local rectangle at line 203, for a run that gets there.
rectangleAt203(o, doc) ==
    LET scan == Scan(doc)
        name == tilingSchemeNameOf(scan)
    IN rectangleOf(o, scan, Val(tilingSchemeOf(o, name)), name)

\* The local rectangle after line 216, for a run that gets there.
rectangleAt217(o, doc) ==
    LET scan == Scan(doc)
    IN clampRectangle(rectangleAt203(o, doc),
                      Val(tilingSchemeOf(o, tilingSchemeNameOf(scan))))

\* optionsAfterClamping when line 168 keeps the caller's object instead of
\* cloning it: lines 205-216 then write the caller's rectangle.
optionsAfterClamping_aliased(o, clamped) ==
    IF defined(o.rectangle) THEN [o EXCEPT !.rectangle = { clamped }] ELSE o

\* Lines 168 and 205-216: the options object after the clamping wrote the local
\* rectangle.  The local is a clone (Rectangle.clone) or a new Rectangle, so the
\* caller's object keeps its edges.
optionsAfterClamping(o, clamped) == o

\* What one run of metadataSuccess does: "throws" (a TypeError leaves the
\* callback), "unsupported" (lines 158-163) or "resolves" (line 230).
outcomeOf(o, doc) ==
    LET scan == Scan(doc)
    IN IF ThrowsReadingFormat(scan) THEN "throws"
       ELSE LET name   == tilingSchemeNameOf(scan)
                scheme == tilingSchemeOf(o, name)
            IN IF ~defined(scheme) THEN "unsupported"
               ELSE IF ThrowsDerivingRectangle(o, scan, Val(scheme), name) THEN "throws"
               ELSE "resolves"

----------------------------------------------------------------------------
(* metadataFailure, lines 244-268.                                         *)

\* failureMinimumLevel with the override ignored.
failureMinimumLevel_zero(o) == 0

\* Line 249
failureMinimumLevel(o) == Val(defaultValue(o.minimumLevel, { 0 }))

\* failureRectangle with the clamping of the success path applied.
failureRectangle_clamped(o, tilingScheme) ==
    clampRectangle(Val(defaultValue(o.rectangle, { tilingScheme.rectangle })), tilingScheme)

\* Line 252: the caller's rectangle object itself, or the scheme's.
failureRectangle(o, tilingScheme) ==
    Val(defaultValue(o.rectangle, { tilingScheme.rectangle }))

\* Lines 246-267: the configuration handed to deferred.resolve.
failureConfiguration(o) ==
    LET fileExtension == defaultValue(o.fileExtension, { "png" })
        tilingScheme  == IF defined(o.tilingScheme) THEN Val(o.tilingScheme)
                         ELSE WebMercatorTilingScheme
    IN [url          |-> templateUrl(o.url, fileExtension),
        tilingScheme |-> tilingScheme,
        rectangle    |-> failureRectangle(o, tilingScheme),
        tileWidth    |-> Val(defaultValue(o.tileWidth, { 256 })),
        tileHeight   |-> Val(defaultValue(o.tileHeight, { 256 })),
        minimumLevel |-> failureMinimumLevel(o),
        maximumLevel |-> o.maximumLevel,
        proxy        |-> o.proxy]

----------------------------------------------------------------------------
(* requestMetadata, lines 270-278.                                         *)

\* Lines 271-275: the url handed to RequestScheduler.request.
resourceUrlOf(o) ==
    LET resourceUrl == joinUrls(o.url, "tilemapresource.xml")
    IN IF defined(o.proxy) THEN << "proxy.getURL", resourceUrl >> ELSE resourceUrl

----------------------------------------------------------------------------
(* The collaborators the callbacks call: the deferred of ThirdParty/when   *)
(* and TileProviderError.handleError of Source/Core.                       *)

\* A deferred is completed by the first resolve or reject; later calls change nothing.
completed(state, how) == IF state = "pending" THEN how ELSE state

\* TileProviderError.handleError: a new error (retry false, timesRetried 0) when
\* there is no previous one, else the previous one with timesRetried incremented;
\* the listeners of the error event then decide retry.
handleError(previousError, retry) ==
    IF defined(previousError)
    THEN [retry |-> retry, timesRetried |-> Val(previousError).timesRetried + 1]
    ELSE [retry |-> retry, timesRetried |-> 0]

\* rejectsAfter without the test of error.retry.
rejectsAfter_always(error) == TRUE

\* Line 160: whether deferred.reject is called after the error was handled.
rejectsAfter(error) == ~error.retry

\* handleError calls retryFunction (requestMetadata) when the listeners set retry.
retriesAfter(error) == error.retry

\* failureHandlesThrow when metadataFailure is chained after metadataSuccess.
failureHandlesThrow_chained == TRUE

\* Line 277: when(promise, metadataSuccess, metadataFailure) runs metadataFailure
\* for a rejected request only; an exception thrown by metadataSuccess is not
\* handed to it.
failureHandlesThrow == FALSE

\* urlMissing with the argument check left out.
urlMissing_never(o) == FALSE

\* Line 99: the argument check.
urlMissing(o) == ~defined(o.url)

----------------------------------------------------------------------------
(* Inputs: the options of the invocation and the documents a request may   *)
(* deliver.                                                                *)

\* A caller's web-mercator scheme.
CallerWebMercator == [WebMercatorTilingScheme EXCEPT !.created = "caller"]

\* A caller's geographic scheme over the eastern hemisphere only.
CallerGeographicEast ==
    [GeographicTilingScheme EXCEPT !.created = "caller",
                                   !.rectangle = Rectangle(0, 0 - (Pi \div 2), Pi, Pi \div 2)]

\* The rectangle of the example in the documentation, lines 88-92:
\* (-120, 20, -60, 40) degrees.
ExampleRectangle == Rectangle(0 - 24, 4, 0 - 12, 8)

NoOptions ==
    [url |-> { "http://host/tms" }, proxy |-> Undefined, fileExtension |-> Undefined,
     tileWidth |-> Undefined, tileHeight |-> Undefined, minimumLevel |-> Undefined,
     maximumLevel |-> Undefined, rectangle |-> Undefined, tilingScheme |-> Undefined,
     flipXY |-> Undefined]

\* Overrides of the format and of the levels.
FormatOptions ==
    { [NoOptions EXCEPT !.proxy = p, !.fileExtension = e, !.tileWidth = w,
                        !.tileHeight = h, !.minimumLevel = mn, !.maximumLevel = mx] :
        p \in { Undefined, { "proxy" } }, e \in { Undefined, { "gif" } },
        w \in { Undefined, { 128 } }, h \in { Undefined, { 64 } },
        mn \in { Undefined, { 3 } }, mx \in { Undefined, { 5 } } }

\* Overrides of the geometry.
GeometryOptions ==
    { [NoOptions EXCEPT !.minimumLevel = mn, !.tilingScheme = ts, !.rectangle = r,
                        !.flipXY = f] :
        mn \in { Undefined, { 3 } },
        ts \in { Undefined, { CallerWebMercator }, { CallerGeographicEast } },
        r \in { Undefined, { ExampleRectangle }, { RectangleMaxValue } },
        f \in { Undefined, { TRUE } } }

\* Invocations without a url.
UrlLessOptions ==
    { [o EXCEPT !.url = Undefined] :
        o \in { NoOptions, [NoOptions EXCEPT !.fileExtension = { "gif" }] } }

OptionsSet == FormatOptions \cup GeometryOptions \cup UrlLessOptions

Profiles ==
    { "geodetic", "global-geodetic", "mercator", "global-mercator", "unknown-profile" }

\* The order attributes of the tileset entries, in document order.
OrderLists == { << >>, << <<"2">> >>, << <<"1">>, <<"3">> >>, << <<"3">>, <<"1">> >> }

TileFormatNode ==
    Node("TileFormat",
         [extension |-> "jpg", width |-> <<"5", "1", "2">>, height |-> <<"2", "5", "6">>],
         << >>)

TileSetNode(order) == Node("TileSet", [order |-> order], << >>)

TileSetsNode(profile, orders) ==
    Node("TileSets", [profile |-> profile],
         [i \in 1..Len(orders) |-> TileSetNode(orders[i])])

\* The bounding box of the documentation's example, in degrees.
DegreesBoundingBox ==
    Node("BoundingBox",
         [minx |-> <<"-", "1", "2", "0">>, miny |-> <<"2", "0">>,
          maxx |-> <<"-", "6", "0">>, maxy |-> <<"4", "0">>], << >>)

\* The same area in projected web-mercator kilometres.
ProjectedBoundingBox ==
    Node("BoundingBox",
         [minx |-> <<"-", "1", "3", "3", "4", "4">>, miny |-> <<"2", "2", "7", "3">>,
          maxx |-> <<"-", "6", "6", "7", "2">>, maxy |-> <<"4", "8", "6", "6">>], << >>)

\* A document: a TileMap root with a Title, an SRS and the given optional sections.
Document(bbox, format, tilesets) ==
    [childNodes |->
       << Node("TileMap", NoAttributes,
               << Node("Title", NoAttributes, << >>), Node("SRS", NoAttributes, << >>) >>
               \o (IF defined(bbox) THEN << Val(bbox) >> ELSE << >>)
               \o (IF defined(format) THEN << Val(format) >> ELSE << >>)
               \o (IF defined(tilesets) THEN << Val(tilesets) >> ELSE << >>)) >>]

Documents ==
    { Document(b, f, t) :
        b \in { Undefined, { DegreesBoundingBox }, { ProjectedBoundingBox } },
        f \in { Undefined, { TileFormatNode } },
        t \in { Undefined } \cup { { TileSetsNode(p, l) } : p \in Profiles, l \in OrderLists } }

\* What a settled request delivers to the callbacks.
Loaded(doc) == [ok |-> TRUE, document |-> doc]

Failed == [ok |-> FALSE, document |-> Undefined]

----------------------------------------------------------------------------
(* The state machine.                                                      *)

Init ==
    /\ options \in OptionsSet
    /\ pc = "call"
    /\ deferredState = "none"
    /\ deferredValue = Undefined
    /\ resolveCalls = 0
    /\ rejectCalls = 0
    /\ imageryProvider = FALSE
    /\ metadataError = Undefined
    /\ requests = << >>
    /\ pending = FALSE
    /\ xml = Undefined
    /\ handler = "none"
    /\ uncaught = 0
    /\ errorEvents = 0
    /\ retriesGranted = 0
    /\ unclampedRectangle = Undefined
    /\ clampedRectangle = Undefined

\* Lines 99-101: the call throws a DeveloperError.
CreateThrows ==
    /\ pc = "call"
    /\ urlMissing(options)
    /\ pc' = "threw"
    /\ UNCHANGED << options, deferredState, deferredValue, resolveCalls, rejectCalls,
                    imageryProvider, metadataError, requests, pending, xml, handler,
                    uncaught, errorEvents, retriesGranted, unclampedRectangle, clampedRectangle >>

\* Lines 104-107 and 280-281: the deferred, the provider, the first
\* requestMetadata(), and the return.
Create ==
    /\ pc = "call"
    /\ ~urlMissing(options)
    /\ pc' = "returned"
    /\ deferredState' = "pending"
    /\ imageryProvider' = TRUE
    /\ requests' = Append(requests, resourceUrlOf(options))
    /\ pending' = TRUE
    /\ UNCHANGED << options, deferredValue, resolveCalls, rejectCalls, metadataError,
                    xml, handler, uncaught, errorEvents, retriesGranted,
                    unclampedRectangle, clampedRectangle >>

\* Lines 244-268: the request settles with a failure and metadataFailure runs.
MetadataFailure ==
    /\ pending
    /\ pending' = FALSE
    /\ xml' = { Failed }
    /\ handler' = "metadataFailure"
    /\ deferredState' = completed(deferredState, "resolved")
    /\ deferredValue' = IF deferredState = "pending" THEN { failureConfiguration(options) }
                        ELSE deferredValue
    /\ resolveCalls' = resolveCalls + 1
    /\ UNCHANGED << options, pc, rejectCalls, imageryProvider, metadataError, requests,
                    uncaught, errorEvents, retriesGranted, unclampedRectangle, clampedRectangle >>

\* Lines 111-242: the request settles with a parsed document and metadataSuccess
\* runs on it.  retry is what the listeners of the error event decide, should
\* the unsupported-profile branch raise it.
MetadataSuccess ==
    /\ pending
    /\ \E doc \in Documents, retry \in BOOLEAN :
         LET outcome == outcomeOf(options, doc)
             error   == handleError(metadataError, retry)
             reaches == reachesClamping(options, doc)
         IN /\ retry => (outcome = "unsupported" /\ Len(requests) <= MaxRetries)
            /\ xml' = { Loaded(doc) }
            /\ retriesGranted' = IF retry THEN retriesGranted + 1 ELSE retriesGranted
            /\ unclampedRectangle' = IF reaches THEN { rectangleAt203(options, doc) }
                                     ELSE Undefined
            /\ clampedRectangle' = IF reaches THEN { rectangleAt217(options, doc) } ELSE Undefined
            /\ options' = IF reaches
                          THEN optionsAfterClamping(options, rectangleAt217(options, doc))
                          ELSE options
            /\ CASE outcome = "throws" /\ ~failureHandlesThrow ->
                      /\ handler' = "metadataSuccess"
                      /\ uncaught' = uncaught + 1
                      /\ pending' = FALSE
                      /\ UNCHANGED << deferredState, deferredValue, resolveCalls,
                                      rejectCalls, metadataError, requests, errorEvents >>
                 [] outcome = "throws" /\ failureHandlesThrow ->
                      /\ handler' = "metadataFailure"
                      /\ pending' = FALSE
                      /\ deferredState' = completed(deferredState, "resolved")
                      /\ deferredValue' = IF deferredState = "pending"
                                          THEN { failureConfiguration(options) }
                                          ELSE deferredValue
                      /\ resolveCalls' = resolveCalls + 1
                      /\ UNCHANGED << rejectCalls, metadataError, requests, uncaught,
                                      errorEvents >>
                 [] outcome = "unsupported" ->
                      /\ handler' = "metadataSuccess"
                      /\ errorEvents' = errorEvents + 1
                      /\ metadataError' = { error }
                      /\ requests' = IF retriesAfter(error)
                                     THEN Append(requests, resourceUrlOf(options))
                                     ELSE requests
                      /\ pending' = retriesAfter(error)
                      /\ deferredState' = IF rejectsAfter(error)
                                          THEN completed(deferredState, "rejected")
                                          ELSE deferredState
                      /\ rejectCalls' = IF rejectsAfter(error) THEN rejectCalls + 1
                                        ELSE rejectCalls
                      /\ UNCHANGED << deferredValue, resolveCalls, uncaught >>
                 [] outcome = "resolves" ->
                      /\ handler' = "metadataSuccess"
                      /\ pending' = FALSE
                      /\ deferredState' = completed(deferredState, "resolved")
                      /\ deferredValue' = IF deferredState = "pending"
                                          THEN { successConfiguration(options, Scan(doc)) }
                                          ELSE deferredValue
                      /\ resolveCalls' = resolveCalls + 1
                      /\ UNCHANGED << rejectCalls, metadataError, requests, uncaught,
                                      errorEvents >>
    /\ UNCHANGED << pc, imageryProvider >>

Next ==
    \/ CreateThrows
    \/ Create
    \/ MetadataFailure
    \/ MetadataSuccess

Spec == Init /\ [][Next]_vars

----------------------------------------------------------------------------
(* Vocabulary of the properties below: what the last settled request       *)
(* delivered, read from the document itself.                               *)

\* The last settled request delivered a parsed document.
DocumentLoaded == defined(xml) /\ Val(xml).ok

\* The last settled request failed.
FetchFailed == defined(xml) /\ ~Val(xml).ok

LastDocument == Val(xml).document

\* The children of the document's root element with the given name.
Sections(doc, name) ==
    LET nodes == doc.childNodes[1].childNodes
    IN { nodes[i] : i \in { j \in DOMAIN nodes : nodes[j].nodeName = name } }

\* The order attributes of the tileset entries, in document order.
TileSetOrders(doc) ==
    IF Sections(doc, "TileSets") = {} THEN << >>
    ELSE LET entries == Val(Sections(doc, "TileSets")).childNodes
         IN [i \in DOMAIN entries |-> parseInt(entries[i].attributes.order)]

RecognisedProfiles == { "geodetic", "global-geodetic", "mercator", "global-mercator" }

\* The document has a tileset-list container and it declares this profile.
DeclaresProfile(doc, profiles) ==
    \E t \in Sections(doc, "TileSets") : t.attributes.profile \in profiles

\* The document lacks one of the sections metadataSuccess reads.
Incomplete(doc) ==
    \/ Sections(doc, "TileFormat") = {}
    \/ Sections(doc, "TileSets") = {}
    \/ Len(TileSetOrders(doc)) = 0
    \/ Sections(doc, "BoundingBox") = {}

Completions == resolveCalls + rejectCalls

\* metadataSuccess resolved the deferred: deferredValue is its configuration.
DeliveredBySuccess == deferredState = "resolved" /\ handler = "metadataSuccess"

\* metadataFailure resolved the deferred.
DeliveredByFailure == deferredState = "resolved" /\ handler = "metadataFailure"

Delivered == Val(deferredValue)

FileExtensionIn(config) == config.url[2][2]

----------------------------------------------------------------------------
(* Properties.                                                             *)

\* C1: once a request has settled on the success path (a parsed document of any
\* shape whose profile is recognised or with a tiling-scheme override) or on the
\* fallback path (a fetch failure), the deferred has been completed, and exactly once.
C1_CompletedExactlyOnce ==
    ( /\ ~pending
      /\ \/ FetchFailed
         \/ /\ DocumentLoaded
            /\ \/ defined(options.tilingScheme)
               \/ DeclaresProfile(LastDocument, RecognisedProfiles) )
    => (Completions = 1 /\ deferredState # "pending")

\* C2: the number of completion calls on the deferred (resolve plus reject) is
\* at most 1 in every reachable state, whatever the requests deliver and
\* whatever the error channel decides.
C2_AtMostOneCompletion == Completions <= 1

\* C2 witness: a retry was granted and the deferred was completed later.
C2_Witness == Len(requests) >= 2 /\ Completions = 1

C4_UnsupportedProfileRejects ==
    ( /\ DocumentLoaded
      /\ handler = "metadataSuccess"
      /\ DeclaresProfile(LastDocument, Profiles \ RecognisedProfiles)
      /\ ~defined(options.tilingScheme)
      /\ ~(defined(metadataError) /\ Val(metadataError).retry) )
    => /\ errorEvents >= 1
       /\ rejectCalls = 1
       /\ deferredState = "rejected"
       /\ deferredValue = Undefined
       /\ resolveCalls = 0
       /\ ~pending

C6_EveryOverrideDelivered ==
    DeliveredBySuccess =>
      /\ defined(options.fileExtension) => FileExtensionIn(Delivered) = options.fileExtension
      /\ defined(options.tileWidth) => Delivered.tileWidth = Val(options.tileWidth)
      /\ defined(options.tileHeight) => Delivered.tileHeight = Val(options.tileHeight)
      /\ defined(options.minimumLevel) => Delivered.minimumLevel = Val(options.minimumLevel)
      /\ defined(options.maximumLevel) => Delivered.maximumLevel = options.maximumLevel
      /\ defined(options.tilingScheme) => Delivered.tilingScheme = Val(options.tilingScheme)

\* C6 amended: on the success path every override of file extension, tile
\* width, tile height, maximum level and tiling scheme is delivered as the
\* caller gave it; an override of the minimum level is delivered as given when
\* the delivered rectangle spans at most 4 tiles at that level, and as 0 otherwise.
C6_OverridesDelivered ==
    DeliveredBySuccess =>
      /\ defined(options.fileExtension) => FileExtensionIn(Delivered) = options.fileExtension
      /\ defined(options.tileWidth) => Delivered.tileWidth = Val(options.tileWidth)
      /\ defined(options.tileHeight) => Delivered.tileHeight = Val(options.tileHeight)
      /\ defined(options.maximumLevel) => Delivered.maximumLevel = options.maximumLevel
      /\ defined(options.tilingScheme) => Delivered.tilingScheme = Val(options.tilingScheme)
      /\ defined(options.minimumLevel) =>
           Delivered.minimumLevel =
              (IF tileCountOf(Delivered.tilingScheme, Delivered.rectangle,
                              Val(options.minimumLevel)) > 4
               THEN 0 ELSE Val(options.minimumLevel))

\* C6 witness: a document was delivered under overrides of the format and of
\* both levels, the minimum level as the caller gave it.
C6_Witness ==
    /\ DeliveredBySuccess
    /\ defined(options.fileExtension)
    /\ defined(options.tileWidth)
    /\ defined(options.tileHeight)
    /\ defined(options.maximumLevel)
    /\ defined(options.minimumLevel)
    /\ Delivered.minimumLevel = Val(options.minimumLevel)

\* C7: when a parsed document lacks the format section, the tileset-list
\* container, the tileset entries or the bounding box (and its profile does not
\* take the unsupported-profile branch), no exception leaves metadataSuccess and
\* the deferred is resolved with a configuration.
C7_IncompleteDocumentDegrades ==
    ( /\ ~pending
      /\ DocumentLoaded
      /\ Incomplete(LastDocument)
      /\ \/ defined(options.tilingScheme)
         \/ ~DeclaresProfile(LastDocument, Profiles \ RecognisedProfiles) )
    => /\ uncaught = 0
       /\ deferredState = "resolved"
       /\ defined(deferredValue)

\* C8: for a document with at least one tileset entry and a recognised profile,
\* and no level override, the delivered maximum level is the order of the last
\* tileset entry in document order, and the delivered minimum level is the order
\* of the first entry or 0.
C8_LevelsFromTileSets ==
    ( /\ DeliveredBySuccess
      /\ DeclaresProfile(LastDocument, RecognisedProfiles)
      /\ Len(TileSetOrders(LastDocument)) >= 1
      /\ ~defined(options.minimumLevel)
      /\ ~defined(options.maximumLevel) )
    => LET orders == TileSetOrders(LastDocument)
       IN /\ Delivered.maximumLevel = { orders[Len(orders)] }
          /\ Delivered.minimumLevel \in { orders[1], 0 }

\* C8 witness: a document whose entries are in descending order was delivered:
\* the maximum level is the last order (1), the minimum level the first (3).
C8_Witness ==
    /\ DeliveredBySuccess
    /\ DeclaresProfile(LastDocument, RecognisedProfiles)
    /\ ~defined(options.minimumLevel)
    /\ ~defined(options.maximumLevel)
    /\ TileSetOrders(LastDocument) = << 3, 1 >>
    /\ Delivered.maximumLevel = { 1 }
    /\ Delivered.minimumLevel = 3

\* C9: for a document with a format section, a bounding box and a tileset list
\* of a recognised profile that holds no tileset entry, and no level override,
\* a configuration is delivered with maximum level undefined and minimum level 0.
C9_EmptyTileSetList ==
    ( /\ ~pending
      /\ DocumentLoaded
      /\ Sections(LastDocument, "TileFormat") # {}
      /\ Sections(LastDocument, "BoundingBox") # {}
      /\ DeclaresProfile(LastDocument, RecognisedProfiles)
      /\ Len(TileSetOrders(LastDocument)) = 0
      /\ ~defined(options.minimumLevel)
      /\ ~defined(options.maximumLevel) )
    => /\ deferredState = "resolved"
       /\ defined(deferredValue)
       /\ Delivered.maximumLevel = Undefined
       /\ Delivered.minimumLevel = 0

\* C10: on the success path without a tiling-scheme override the document's
\* profile is one of the four recognised ones, the delivered scheme is
\* geographic exactly for geodetic and global-geodetic, and web-mercator exactly
\* for mercator and global-mercator.
C10_SchemeFromProfile ==
    (DeliveredBySuccess /\ ~defined(options.tilingScheme)) =>
      /\ DeclaresProfile(LastDocument, RecognisedProfiles)
      /\ Delivered.tilingScheme.kind = "geographic"
           <=> DeclaresProfile(LastDocument, { "geodetic", "global-geodetic" })
      /\ Delivered.tilingScheme.kind = "webmercator"
           <=> DeclaresProfile(LastDocument, { "mercator", "global-mercator" })

\* C10 witness: a global-geodetic document was delivered with a geographic scheme.
C10_Witness ==
    /\ DeliveredBySuccess
    /\ ~defined(options.tilingScheme)
    /\ DeclaresProfile(LastDocument, { "global-geodetic" })
    /\ Delivered.tilingScheme.kind = "geographic"

----------------------------------------------------------------------------
(* Vocabulary of the properties about the rectangle.                       *)

\* The tiling scheme lines 150-157 settle on for the last document: the
\* override, else the scheme of the declared profile.
ResolvedScheme ==
    IF defined(options.tilingScheme) THEN Val(options.tilingScheme)
    ELSE IF DeclaresProfile(LastDocument, { "geodetic", "global-geodetic" })
    THEN GeographicTilingScheme
    ELSE WebMercatorTilingScheme

\* The bounding box of the last document and its four numbers.
LastBoundingBox == Val(Sections(LastDocument, "BoundingBox"))

Extremum(bbox, name) == parseFloat(bbox.attributes[name])

\* The bounding box with its X and Y attributes exchanged.
Exchanged(bbox) ==
    [bbox EXCEPT !.attributes =
        [minx |-> bbox.attributes.miny, miny |-> bbox.attributes.minx,
         maxx |-> bbox.attributes.maxy, maxy |-> bbox.attributes.maxx]]

\* The last run of metadataSuccess derived its rectangle from the bounding box.
DerivedFromBoundingBox ==
    /\ DocumentLoaded
    /\ handler = "metadataSuccess"
    /\ defined(unclampedRectangle)
    /\ ~defined(options.rectangle)

\* The corner (x, y) read as plain degrees, or through the inverse projection.
CornerOf(x, y, degrees) ==
    IF degrees THEN fromDegrees(x, y) ELSE unproject(Cartesian2(x, y))

\* The rectangle with south-west corner (x1, y1) and north-east corner (x2, y2).
RectangleOfCorners(x1, y1, x2, y2, degrees) ==
    LET sw == CornerOf(x1, y1, degrees)
        ne == CornerOf(x2, y2, degrees)
    IN Rectangle(sw.longitude, sw.latitude, ne.longitude, ne.latitude)

\* Whether lines 191-192 read the last document's corners as degrees.
ReadAsDegrees ==
    inDegrees(ResolvedScheme,
              { t.attributes.profile : t \in Sections(LastDocument, "TileSets") })

Within(r, b) ==
    /\ b.west <= r.west /\ r.west <= b.east
    /\ b.west <= r.east /\ r.east <= b.east
    /\ b.south <= r.south /\ r.south <= b.north
    /\ b.south <= r.north /\ r.north <= b.north

\* The number of tiles between the tiles of the corners of r at the given level.
Footprint(scheme, r, level) ==
    LET swTile == Val(positionToTileXY(scheme, southwest(r), level))
        neTile == Val(positionToTileXY(scheme, northeast(r), level))
        dx == IF neTile.x >= swTile.x THEN neTile.x - swTile.x ELSE swTile.x - neTile.x
        dy == IF neTile.y >= swTile.y THEN neTile.y - swTile.y ELSE swTile.y - neTile.y
    IN (dx + 1) * (dy + 1)

\* The minimum level before the tile-count check: the override, else the order
\* of the first tileset entry.
CandidateMinimumLevel ==
    IF defined(options.minimumLevel) THEN Val(options.minimumLevel)
    ELSE TileSetOrders(LastDocument)[1]

\* The url every request of the invocation is made for.
ExpectedResourceUrl ==
    IF defined(options.proxy)
    THEN << "proxy.getURL", << options.url, "tilemapresource.xml" >> >>
    ELSE << options.url, "tilemapresource.xml" >>

----------------------------------------------------------------------------
(* Properties of the rectangle, the levels and the requests.               *)

\* C11: without a rectangle override, the rectangle derived under flipXY = true
\* is the one derived without flipXY from the bounding box with X and Y
\* exchanged; without flipXY the south-west corner comes from (minx, miny) and
\* the north-east corner from (maxx, maxy).
C11_FlipExchangesXY ==
    DerivedFromBoundingBox =>
      LET bbox == LastBoundingBox
          name == { t.attributes.profile : t \in Sections(LastDocument, "TileSets") }
      IN IF options.flipXY = { TRUE }
         THEN unclampedRectangle =
                { derivedRectangle([options EXCEPT !.flipXY = Undefined], Exchanged(bbox),
                                   ResolvedScheme, name) }
         ELSE unclampedRectangle =
                { RectangleOfCorners(Extremum(bbox, "minx"), Extremum(bbox, "miny"),
                                     Extremum(bbox, "maxx"), Extremum(bbox, "maxy"),
                                     ReadAsDegrees) }

\* C11 witness: a rectangle derived under flipXY that differs from the one the
\* same bounding box gives without it.
C11_Witness ==
    /\ DerivedFromBoundingBox
    /\ DeliveredBySuccess
    /\ options.flipXY = { TRUE }
    /\ unclampedRectangle #
         { RectangleOfCorners(Extremum(LastBoundingBox, "minx"), Extremum(LastBoundingBox, "miny"),
                              Extremum(LastBoundingBox, "maxx"), Extremum(LastBoundingBox, "maxy"),
                              ReadAsDegrees) }

C13_OverrideSkipsProfile ==
    defined(options.tilingScheme) =>
      /\ errorEvents = 0
      /\ rejectCalls = 0
      /\ deferredState # "rejected"
      /\ DeliveredBySuccess => Delivered.tilingScheme = Val(options.tilingScheme)

\* C13 witness: a document of an unrecognised profile was delivered under an override.
C13_Witness ==
    /\ DeliveredBySuccess
    /\ defined(options.tilingScheme)
    /\ DeclaresProfile(LastDocument, Profiles \ RecognisedProfiles)

\* C14: on the success path the delivered minimum level is 0 when the clamped
\* rectangle spans more than 4 tiles at the candidate level m, and m otherwise;
\* so a delivered minimum level other than 0 spans at most 4 tiles.
C14_TileCountCheck ==
    DeliveredBySuccess =>
      LET m == CandidateMinimumLevel
          tileCount == Footprint(Delivered.tilingScheme, Delivered.rectangle, m)
      IN /\ tileCount > 4 => Delivered.minimumLevel = 0
         /\ tileCount <= 4 => Delivered.minimumLevel = m
         /\ Delivered.minimumLevel # 0 =>
              Footprint(Delivered.tilingScheme, Delivered.rectangle,
                        Delivered.minimumLevel) <= 4

\* C14 witness: a candidate level above 0 whose footprint is exactly 4 tiles was kept.
C14_Witness ==
    /\ DeliveredBySuccess
    /\ CandidateMinimumLevel > 0
    /\ Footprint(Delivered.tilingScheme, Delivered.rectangle, CandidateMinimumLevel) = 4
    /\ Delivered.minimumLevel = CandidateMinimumLevel

\* C15: the clamping of lines 204-216 changes an edge only when it lies beyond
\* the scheme's bound on its own side and then sets it to that bound; it never
\* expands the rectangle, and clamping the result again changes nothing.
C15_ClampingPullsIn ==
    (DocumentLoaded /\ handler = "metadataSuccess" /\ defined(unclampedRectangle)) =>
      LET r == Val(unclampedRectangle)
          c == Val(clampedRectangle)
          b == ResolvedScheme.rectangle
      IN /\ c.west = (IF r.west < b.west THEN b.west ELSE r.west)
         /\ c.east = (IF r.east > b.east THEN b.east ELSE r.east)
         /\ c.south = (IF r.south < b.south THEN b.south ELSE r.south)
         /\ c.north = (IF r.north > b.north THEN b.north ELSE r.north)
         /\ c.west >= r.west /\ c.east <= r.east
         /\ c.south >= r.south /\ c.north <= r.north
         /\ clampRectangle(c, ResolvedScheme) = c

\* C15 witness: the clamping pulled in some edges and left others as they were.
C15_Witness ==
    /\ defined(unclampedRectangle)
    /\ Val(clampedRectangle).north < Val(unclampedRectangle).north
    /\ Val(clampedRectangle).west = Val(unclampedRectangle).west

\* C16: every request is for tilemapresource.xml under the url; after every
\* step the number of requests issued is 1 plus the number of retries granted
\* and no request is outstanding once the deferred is completed; and no step
\* issues a request after the deferred was completed.
C16_OneRequestPerAttempt ==
    [][ /\ pc' = "returned" =>
             /\ Len(requests') = 1 + retriesGranted'
             /\ \A i \in 1..Len(requests') : requests'[i] = ExpectedResourceUrl
        /\ pc' # "returned" => requests' = << >>
        /\ Completions' >= 1 => ~pending'
        /\ Completions >= 1 => requests' = requests ]_vars

\* C16 witness: retries were granted, each followed by a new request, and the
\* deferred was completed afterwards.
C16_Witness ==
    /\ retriesGranted = 2
    /\ Len(requests) = 3
    /\ Completions = 1
    /\ ~pending

\* C17: metadataFailure runs only for a request that failed: after a parsed
\* document the last callback is metadataSuccess and a delivered configuration
\* is the one metadataSuccess built, also when the profile was unsupported or
\* metadataSuccess threw.
C17_FallbackOnlyOnFailure ==
    /\ handler = "metadataFailure" => FetchFailed
    /\ DocumentLoaded =>
         /\ handler = "metadataSuccess"
         /\ deferredState = "resolved" => unclampedRectangle # Undefined
         /\ uncaught >= 1 => deferredState = "pending"

\* C17 witness: metadataSuccess threw on a parsed document and nothing was delivered.
C17_Witness ==
    /\ DocumentLoaded
    /\ uncaught = 1
    /\ deferredState = "pending"
    /\ deferredValue = Undefined

\* C18: without a rectangle override the corners of the bounding box are read
\* as degrees exactly when the resolved scheme is geographic or the profile is
\* geodetic or mercator, and go through the inverse projection otherwise.
C18_DegreesOrProjected ==
    DerivedFromBoundingBox =>
      LET bbox == LastBoundingBox
          flip == options.flipXY = { TRUE }
          degrees == \/ ResolvedScheme.kind = "geographic"
                     \/ DeclaresProfile(LastDocument, { "geodetic", "mercator" })
          x1 == Extremum(bbox, IF flip THEN "miny" ELSE "minx")
          y1 == Extremum(bbox, IF flip THEN "minx" ELSE "miny")
          x2 == Extremum(bbox, IF flip THEN "maxy" ELSE "maxx")
          y2 == Extremum(bbox, IF flip THEN "maxx" ELSE "maxy")
      IN unclampedRectangle = { RectangleOfCorners(x1, y1, x2, y2, degrees) }

\* C18 witness: under a web-mercator override and an unrecognised profile the
\* corners went through the inverse projection, which differs from reading
\* them as degrees.
C18_Witness ==
    /\ DerivedFromBoundingBox
    /\ options.tilingScheme = { CallerWebMercator }
    /\ DeclaresProfile(LastDocument, Profiles \ RecognisedProfiles)
    /\ options.flipXY = Undefined
    /\ unclampedRectangle =
         { RectangleOfCorners(Extremum(LastBoundingBox, "minx"), Extremum(LastBoundingBox, "miny"),
                              Extremum(LastBoundingBox, "maxx"), Extremum(LastBoundingBox, "maxy"),
                              FALSE) }
    /\ unclampedRectangle #
         { RectangleOfCorners(Extremum(LastBoundingBox, "minx"), Extremum(LastBoundingBox, "miny"),
                              Extremum(LastBoundingBox, "maxx"), Extremum(LastBoundingBox, "maxy"),
                              TRUE) }

C20_FallbackKeepsOverrides ==
    DeliveredByFailure =>
      /\ defined(options.rectangle) => Delivered.rectangle = Val(options.rectangle)
      /\ defined(options.minimumLevel) => Delivered.minimumLevel = Val(options.minimumLevel)

\* C20 witness: the fallback delivered a rectangle beyond the scheme's rectangle
\* and a minimum level whose footprint on the clamped rectangle exceeds 4 tiles,
\* where the success path would deliver another rectangle and level 0 for some document.
C20_Witness ==
    /\ DeliveredByFailure
    /\ defined(options.rectangle)
    /\ defined(options.minimumLevel)
    /\ ~Within(Delivered.rectangle, Delivered.tilingScheme.rectangle)
    /\ Delivered.minimumLevel > 0
    /\ Footprint(Delivered.tilingScheme,
                 clampRectangle(Delivered.rectangle, Delivered.tilingScheme),
                 Delivered.minimumLevel) > 4
    /\ \E doc \in Documents :
         /\ outcomeOf(options, doc) = "resolves"
         /\ successConfiguration(options, Scan(doc)).rectangle # Delivered.rectangle
         /\ successConfiguration(options, Scan(doc)).minimumLevel = 0

====
